---------------------------- MODULE Spec2Model ----------------------------
(***************************************************************************)
(* Universal Timestamp: the monotonic generator (ut_now.c), the strict and *)
(* lenient parser (ut_parse.c), the formatter (ut_format.c) and the        *)
(* calendar arithmetic they share (core/ut_core.c).                        *)
(*                                                                         *)
(* Text is a sequence of one-character strings; C index i is element i+1.  *)
(*                                                                         *)
(* An int64_t nanosecond count does not fit the model checker's integers,  *)
(* so it is held exactly, as sign and magnitude in the mixed radix         *)
(*     |n| = (d * 86400 + s) * 10^9 + f,  0 <= s < 86400, 0 <= f < 10^9,   *)
(* the record [neg, d, s, f].  C's truncating / and % by 10^9, by 86400    *)
(* and by 86400 * 10^9 are then exact: they split the magnitude and keep   *)
(* the sign.  An int64_t second count is the same record with f = 0.       *)
(***************************************************************************)
EXTENDS Integers, Sequences, FiniteSets, TLC

VARIABLES
    g_last_monotonic,       \* ut_now.c: static atomic_int_fast64_t
    g_regression_callback,  \* ut_now.c: static ut_regression_callback_t
    pc,                     \* per thread: position inside ut_now_monotonic
    current,                \* per thread: local `current.nanos`
    last,                   \* per thread: local `last`
    new_val,                \* per thread: local `new_val`
    calls,                  \* per thread: calls started so far
    spurious,               \* per thread: spurious compare-and-swap failures of this call
    notified,               \* per thread: regression callback invocations of this call
    before,                 \* per thread: the results returned before this call began
    returned,               \* results of the calls that have returned
    emitted,                \* values installed by a successful compare-and-swap, in order
    mock,                   \* the readings a mocked clock will give, in order
    input,                  \* parser: the text passed by the last call (or NULL_STR)
    mode,                   \* parser: "strict" or "lenient", the function last called
    err,                    \* parser: the value the last call returned
    ts,                     \* parser: the caller's timestamp object, [null, nanos]
    parts,                  \* parser: the pieces the input was put together from
    rt_pc,                  \* test_round_trip: position
    original,               \* test_round_trip: the instant formatted
    buf,                    \* formatter: the caller's buffer after ut_format
    fmt_len,                \* formatter: the value ut_format returned
    include_nanos,          \* formatter: the include_nanos argument
    buf_size,               \* formatter: the capacity of the caller's buffer
    when,                   \* calendar: the date and time the caller's instant names
    cal_ts,                 \* calendar: the instant passed
    cal_op,                 \* calendar: the function called (or NULL)
    cal_err,                \* calendar: the value ut_to_japanese_era returned
    era,                    \* calendar: the caller's era variable (NULL: a null pointer)
    era_year,               \* calendar: the caller's era_year variable
    iso,                    \* calendar: the caller's year, week and day variables
    fields,                 \* calendar: the fields ut_internal_from_nanos wrote
    year_in,                \* calendar: the year passed to a year-offset function
    year_out                \* calendar: the years the offset functions returned

vars == <<g_last_monotonic, g_regression_callback, pc, current, last, new_val,
          calls, spurious, notified, before, returned, emitted, mock,
          input, mode, err, ts, parts, rt_pc, original, buf, fmt_len, include_nanos,
          buf_size, when, cal_ts, cal_op, cal_err, era, era_year, iso, fields,
          year_in, year_out>>

genVars == <<g_last_monotonic, g_regression_callback, pc, current, last, new_val,
             calls, spurious, notified, before, returned, emitted, mock>>
parseVars == <<input, mode, err, ts, parts>>
fmtVars == <<rt_pc, original, buf, fmt_len, include_nanos, buf_size>>
calVars == <<when, cal_ts, cal_op, cal_err, era, era_year, iso, fields, year_in, year_out>>

NULL == "NULL"

\* ------------------------------------------------------------------------
\* ut_error_t

UT_OK == "UT_OK"
UT_ERR_INVALID_FORMAT == "UT_ERR_INVALID_FORMAT"
UT_ERR_INVALID_DATE == "UT_ERR_INVALID_DATE"
UT_ERR_OUT_OF_RANGE == "UT_ERR_OUT_OF_RANGE"
UT_ERR_UNSUPPORTED_OFFSET == "UT_ERR_UNSUPPORTED_OFFSET"
UT_ERR_FRACTION_TOO_LONG == "UT_ERR_FRACTION_TOO_LONG"
UT_ERR_LEAP_SECOND == "UT_ERR_LEAP_SECOND"
UT_ERR_NULL_POINTER == "UT_ERR_NULL_POINTER"

\* ------------------------------------------------------------------------
\* core/ut_core.c: constants

NANOS_PER_SECOND == 1000000000
SECONDS_PER_MINUTE == 60
SECONDS_PER_HOUR == 3600
SECONDS_PER_DAY == 86400

\* universal_timestamp.h
UT_MAX_STRING_LEN == 32

DAYS_IN_MONTH == <<31, 28, 31, 30, 31, 30, 31, 31, 30, 31, 30, 31>>

\* ------------------------------------------------------------------------
\* int64_t in sign-magnitude mixed radix

\* The record of sign `neg` and magnitude (d, s, f); zero is never negative.
I64(neg, d, s, f) ==
    [neg |-> neg /\ (d > 0 \/ s > 0 \/ f > 0), d |-> d, s |-> s, f |-> f]

I64Zero == I64(FALSE, 0, 0, 0)

\* INT64_MAX = 9223372036854775807, |INT64_MIN| = 9223372036854775808, 2^64.
INT64_MAX == I64(FALSE, 106751, 85636, 854775807)
INT64_MIN == I64(TRUE, 106751, 85636, 854775808)
TwoTo64 == I64(FALSE, 213503, 84873, 709551616)

\* |a| < |b|
MagLess(a, b) ==
    \/ a.d < b.d
    \/ a.d = b.d /\ a.s < b.s
    \/ a.d = b.d /\ a.s = b.s /\ a.f < b.f

\* a < b as integers
I64Less(a, b) ==
    IF a.neg /\ ~b.neg THEN TRUE
    ELSE IF ~a.neg /\ b.neg THEN FALSE
    ELSE IF a.neg THEN MagLess(b, a)
    ELSE MagLess(a, b)

\* |a| + |b| with sign `neg`
MagAdd(neg, a, b) ==
    LET f == a.f + b.f
        cf == IF f >= NANOS_PER_SECOND THEN 1 ELSE 0
        s == a.s + b.s + cf
        cs == IF s >= SECONDS_PER_DAY THEN 1 ELSE 0
    IN  I64(neg, a.d + b.d + cs, s - cs * SECONDS_PER_DAY, f - cf * NANOS_PER_SECOND)

\* |a| - |b| with sign `neg`, for |a| >= |b|
MagSub(neg, a, b) ==
    LET bf == IF a.f < b.f THEN 1 ELSE 0
        f == a.f + bf * NANOS_PER_SECOND - b.f
        bs == IF a.s < b.s + bf THEN 1 ELSE 0
        s == a.s + bs * SECONDS_PER_DAY - b.s - bf
    IN  I64(neg, a.d - b.d - bs, s, f)

\* a + b, exact
I64Add(a, b) ==
    IF a.neg = b.neg THEN MagAdd(a.neg, a, b)
    ELSE IF MagLess(a, b) THEN MagSub(b.neg, b, a)
    ELSE MagSub(a.neg, a, b)

\* -a
I64Neg(a) == I64(~a.neg, a.d, a.s, a.f)

\* Whether the exact value fits int64_t.
InInt64(x) == ~I64Less(x, INT64_MIN) /\ ~I64Less(INT64_MAX, x)

\* The value an int64_t holds after two's-complement wrap-around.
RECURSIVE Wrap64(_)
Wrap64(x) ==
    IF I64Less(INT64_MAX, x) THEN Wrap64(I64Add(x, I64Neg(TwoTo64)))
    ELSE IF I64Less(x, INT64_MIN) THEN Wrap64(I64Add(x, TwoTo64))
    ELSE x

\* The exact value (days * 86400 + secs) * 10^9 + frac of small signed integers.
I64FromParts(days, secs, frac) ==
    LET F == frac % NANOS_PER_SECOND
        S0 == secs + (frac \div NANOS_PER_SECOND)
        S == S0 % SECONDS_PER_DAY
        D == days + (S0 \div SECONDS_PER_DAY)
    IN  IF D >= 0 THEN I64(FALSE, D, S, F)
        ELSE MagSub(TRUE, I64(FALSE, -D, 0, 0), I64(FALSE, 0, S, F))

\* ------------------------------------------------------------------------
\* core/ut_core.c: calendar arithmetic

\* C's % on int: the remainder has the sign of the dividend.
CRem(a, b) == IF a >= 0 THEN a % b ELSE -((-a) % b)
\* C's / on int: truncation toward zero.
CDiv(a, b) == IF a >= 0 THEN a \div b ELSE -((-a) \div b)

\* A leap-year rule without the century exception.
ut_internal_is_leap_year_every_fourth(year) == CRem(year, 4) = 0

ut_internal_is_leap_year(year) ==
    (CRem(year, 4) = 0 /\ CRem(year, 100) # 0) \/ (CRem(year, 400) = 0)

ut_internal_days_in_month(year, month) ==
    IF month < 1 \/ month > 12 THEN 0
    ELSE IF month = 2 /\ ut_internal_is_leap_year(year) THEN 29
    ELSE DAYS_IN_MONTH[month]

ut_internal_validate_date(year, month, day) ==
    IF year < 0 \/ year > 9999 THEN FALSE
    ELSE IF month < 1 \/ month > 12 THEN FALSE
    ELSE IF day < 1 \/ day > ut_internal_days_in_month(year, month) THEN FALSE
    ELSE TRUE

\* for (y = from; y < to; y++) days += is_leap_year(y) ? 366 : 365;
YearDays(from, to) ==
    IF from >= to THEN 0
    ELSE 365 * (to - from)
         + Cardinality({y \in from..(to - 1) : ut_internal_is_leap_year(y)})

\* for (m = 1; m < month; m++) days += days_in_month(year, m);
RECURSIVE MonthDays(_, _)
MonthDays(year, month) ==
    IF month <= 1 THEN 0
    ELSE MonthDays(year, month - 1) + ut_internal_days_in_month(year, month - 1)

days_from_epoch(year, month, day) ==
    LET years == IF year >= 1970 THEN YearDays(1970, year)
                 ELSE -YearDays(year, 1970)
    IN  years + MonthDays(year, month) + (day - 1)

\* The exact integer the C expression denotes, before it is stored in int64_t.
to_nanos_exact(year, month, day, hour, minute, second, frac_nanos) ==
    I64FromParts(days_from_epoch(year, month, day),
                 hour * SECONDS_PER_HOUR + minute * SECONDS_PER_MINUTE + second,
                 frac_nanos)

ut_internal_to_nanos(year, month, day, hour, minute, second, frac_nanos) ==
    Wrap64(to_nanos_exact(year, month, day, hour, minute, second, frac_nanos))

\* The year walks of ut_internal_from_nanos run up to 293 times; each is given by
\* the state it ends in rather than by 293 nested steps.  A year has 365 or 366
\* days, which confines the year the walk can end in to a window of two.

\* while (1) { if (days < days_in_year(y)) break; days -= days_in_year(y); y++; }
\* ends at the year y with 0 <= days - (days of the years from..y-1) < days_in_year(y)
YearForward(days, from) ==
    LET Left(y) == days - YearDays(from, y)
        y == CHOOSE yy \in (from + (days \div 366))..(from + (days \div 365)) :
                /\ Left(yy) >= 0
                /\ Left(yy) < (IF ut_internal_is_leap_year(yy) THEN 366 ELSE 365)
    IN  [y |-> y, days |-> Left(y)]

\* while (days < 0) { y--; days += days_in_year(y); }
\* ends at the year y with 0 <= days + (days of the years y..from-1) < days_in_year(y)
YearBackward(days, from) ==
    LET Left(y) == days + YearDays(y, from)
        y == CHOOSE yy \in (from - ((-days) \div 365) - 1)..(from - ((-days) \div 366)) :
                /\ Left(yy) >= 0
                /\ Left(yy) < (IF ut_internal_is_leap_year(yy) THEN 366 ELSE 365)
    IN  [y |-> y, days |-> Left(y)]

\* while (1) { if (days < days_in_month(y, m)) break; days -= ...; m++; }
RECURSIVE MonthForward(_, _, _)
MonthForward(days, y, m) ==
    LET days_in_month == ut_internal_days_in_month(y, m)
    IN  IF days < days_in_month THEN [m |-> m, days |-> days]
        ELSE MonthForward(days - days_in_month, y, m + 1)

\* A remainder left as the truncating division gave it.
Borrow_none(remainder, unit) == remainder

\* if (remainder < 0) { remainder += unit; quotient--; }: the remainder's side
Borrow(remainder, unit) == IF remainder < 0 THEN remainder + unit ELSE remainder

ut_internal_from_nanos(nanos) ==
    LET \* nanos / NANOS_PER_SECOND and nanos % NANOS_PER_SECOND, truncating
        total_seconds0 == I64(nanos.neg, nanos.d, nanos.s, 0)
        remaining_nanos0 == IF nanos.neg THEN -nanos.f ELSE nanos.f
        borrow_s == remaining_nanos0 < 0
        remaining_nanos == Borrow(remaining_nanos0, NANOS_PER_SECOND)
        total_seconds == IF borrow_s
                         THEN I64Add(total_seconds0, I64(TRUE, 0, 1, 0))
                         ELSE total_seconds0
        \* total_seconds / SECONDS_PER_DAY and total_seconds % SECONDS_PER_DAY
        days0 == IF total_seconds.neg THEN -total_seconds.d ELSE total_seconds.d
        day_seconds0 == IF total_seconds.neg THEN -total_seconds.s ELSE total_seconds.s
        borrow_d == day_seconds0 < 0
        day_seconds == Borrow(day_seconds0, SECONDS_PER_DAY)
        days == IF borrow_d THEN days0 - 1 ELSE days0
        yd == IF days >= 0 THEN YearForward(days, 1970) ELSE YearBackward(days, 1970)
        md == MonthForward(yd.days, yd.y, 1)
    IN  [year |-> yd.y, month |-> md.m, day |-> md.days + 1,
         hour |-> day_seconds \div SECONDS_PER_HOUR,
         minute |-> (day_seconds % SECONDS_PER_HOUR) \div SECONDS_PER_MINUTE,
         second |-> day_seconds % SECONDS_PER_MINUTE,
         frac_nanos |-> remaining_nanos]


\* ------------------------------------------------------------------------
\* core/ut_core.c: digits

NUL == "\\0"
NULL_STR == <<NULL>>
DIGITS == <<"0", "1", "2", "3", "4", "5", "6", "7", "8", "9">>

\* str[i], with the terminator at and after the end
At(str, i) == IF i < Len(str) THEN str[i + 1] ELSE NUL

\* !(c < '0' || c > '9')
IsDigit(c) == \E i \in DOMAIN DIGITS : DIGITS[i] = c

\* c - '0'
DigitValue(c) == (CHOOSE i \in DOMAIN DIGITS : DIGITS[i] = c) - 1

\* for (i = 0; i < n; i++) { if (c < '0' || c > '9') return -1; val = val * 10 + (c - '0'); }
RECURSIVE DigitLoop(_, _, _, _, _)
DigitLoop(str, at, n, i, val) ==
    IF i >= n THEN val
    ELSE IF ~IsDigit(At(str, at + i)) THEN -1
    ELSE DigitLoop(str, at, n, i + 1, val * 10 + DigitValue(At(str, at + i)))

\* ut_internal_parse_int(str + at, n)
ut_internal_parse_int(str, at, n) == DigitLoop(str, at, n, 0, 0)

MULTIPLIERS == <<100000000, 10000000, 1000000, 100000, 10000, 1000, 100, 10, 1>>

\* A fraction parser that does not scale by the digits' place.
ut_internal_parse_fraction_unscaled(str, at, len) ==
    IF len < 1 \/ len > 9 THEN -1 ELSE DigitLoop(str, at, len, 0, 0)

\* ut_internal_parse_fraction(str + at, len)
ut_internal_parse_fraction(str, at, len) ==
    IF len < 1 \/ len > 9 THEN -1
    ELSE LET val == DigitLoop(str, at, len, 0, 0)
         IN  IF val < 0 THEN -1 ELSE val * MULTIPLIERS[len]

\* ------------------------------------------------------------------------
\* ut_parse.c

\* The caller's timestamp before a call (test.c reuses one `ts` for every call;
\* the model gives it a value no input parses to: -1 ns).
PRIOR == I64(TRUE, 0, 0, 1)

\* A parser that clears *out when it fails.
Fail_clears(out, e) == [err |-> e, nanos |-> I64Zero]

\* return <error>;  -- *out is not written
Fail(out, e) == [err |-> e, nanos |-> out.nanos]

\* while (pos < len && str[pos] >= '0' && str[pos] <= '9') pos++;
RECURSIVE SkipDigits(_, _, _)
SkipDigits(str, len, pos) ==
    IF pos < len /\ IsDigit(At(str, pos)) THEN SkipDigits(str, len, pos + 1) ELSE pos

\* A parser that lets hour 24 through.
TimeOutOfRange_hour_24(hour, minute, second) == hour > 24 \/ minute > 59 \/ second > 59

\* if (hour > 23 || minute > 59 || second > 59)
TimeOutOfRange(hour, minute, second) == hour > 23 \/ minute > 59 \/ second > 59

\* The designator branches yield [bad |-> an error or NULL, pos |-> the cursor].
Reject(e, pos) == [bad |-> e, pos |-> pos]
Accept(pos) == [bad |-> NULL, pos |-> pos]

\* A parser that rejects 'z' in both modes.
DesignatorLowerZ_never(strict, pos) == Reject(UT_ERR_INVALID_FORMAT, pos)

\* else if (suffix == 'z') { if (strict) return INVALID_FORMAT; pos++; }
DesignatorLowerZ(strict, pos) ==
    IF strict THEN Reject(UT_ERR_INVALID_FORMAT, pos) ELSE Accept(pos + 1)

\* A parser that tests only the hour of the offset.
OffsetNonZero_hour_only(off_hour, off_min) == off_hour # 0

\* if (off_hour != 0 || off_min != 0)
OffsetNonZero(off_hour, off_min) == off_hour # 0 \/ off_min # 0

\* A strict parser that validates zero-ness and lets the zero offset through.
DesignatorOffset_zero_in_strict(str, strict, len, pos) ==
    LET off_hour == ut_internal_parse_int(str, pos + 1, 2)
        off_min == ut_internal_parse_int(str, pos + 4, 2)
    IN  IF len - pos < 6 THEN Reject(UT_ERR_INVALID_FORMAT, pos)
        ELSE IF At(str, pos + 3) # ":" THEN Reject(UT_ERR_INVALID_FORMAT, pos)
        ELSE IF off_hour < 0 \/ off_min < 0 THEN Reject(UT_ERR_INVALID_FORMAT, pos)
        ELSE IF OffsetNonZero(off_hour, off_min)
        THEN Reject(UT_ERR_UNSUPPORTED_OFFSET, pos)
        ELSE Accept(pos + 6)

\* else if (suffix == '+' || suffix == '-') { ... pos += 6; }
DesignatorOffset(str, strict, len, pos) ==
    LET off_hour == ut_internal_parse_int(str, pos + 1, 2)
        off_min == ut_internal_parse_int(str, pos + 4, 2)
    IN  IF len - pos < 6 THEN Reject(UT_ERR_INVALID_FORMAT, pos)
        ELSE IF At(str, pos + 3) # ":" THEN Reject(UT_ERR_INVALID_FORMAT, pos)
        ELSE IF off_hour < 0 \/ off_min < 0 THEN Reject(UT_ERR_INVALID_FORMAT, pos)
        ELSE IF OffsetNonZero(off_hour, off_min)
        THEN Reject(UT_ERR_UNSUPPORTED_OFFSET, pos)
        ELSE IF strict THEN Reject(UT_ERR_UNSUPPORTED_OFFSET, pos)
        ELSE Accept(pos + 6)

\* A lenient parser that steps over a character it does not know.
DesignatorOther_skipped(strict, pos) ==
    IF strict THEN Reject(UT_ERR_INVALID_FORMAT, pos) ELSE Accept(pos + 1)

\* else { if (strict) return INVALID_FORMAT; }  -- another character: pos stays
DesignatorOther(strict, pos) ==
    IF strict THEN Reject(UT_ERR_INVALID_FORMAT, pos) ELSE Accept(pos)

\* } else { if (strict) return INVALID_FORMAT; }  -- the input ends: pos == len
DesignatorMissing(strict, pos) ==
    IF strict THEN Reject(UT_ERR_INVALID_FORMAT, pos) ELSE Accept(pos)

\* A parser that does not look past the designator.
TrailingText_ignored(pos, len) == FALSE

\* if (pos != len)
TrailingText(pos, len) == pos # len

\* lines 78-128: the designator, the end of input, the conversion
parse_designator(str, out, strict, len, pos, year, month, day, hour, minute, second, frac_nanos) ==
    LET suffix == At(str, pos)
        step ==
            IF pos < len
            THEN IF suffix = "Z" THEN Accept(pos + 1)
                 ELSE IF suffix = "z" THEN DesignatorLowerZ(strict, pos)
                 ELSE IF suffix = "+" \/ suffix = "-"
                 THEN DesignatorOffset(str, strict, len, pos)
                 ELSE DesignatorOther(strict, pos)
            ELSE DesignatorMissing(strict, pos)
    IN  IF step.bad # NULL THEN Fail(out, step.bad)
        ELSE IF TrailingText(step.pos, len) THEN Fail(out, UT_ERR_INVALID_FORMAT)
        ELSE [err |-> UT_OK,
              nanos |-> ut_internal_to_nanos(year, month, day, hour, minute, second,
                                             frac_nanos)]

\* A parser that keeps the whole length of a long fraction.
FracLen_unclamped(frac_len) == frac_len

\* if (frac_len > 9) { ...; frac_len = 9; }
FracLen(frac_len) == IF frac_len > 9 THEN 9 ELSE frac_len

\* lines 50-76: the optional fraction
parse_fraction(str, out, strict, len, year, month, day, hour, minute, second) ==
    IF 19 < len /\ At(str, 19) = "."
    THEN LET frac_start == 20
             pos == SkipDigits(str, len, frac_start)
             frac_len0 == pos - frac_start
             frac_len == FracLen(frac_len0)
             frac_nanos == ut_internal_parse_fraction(str, frac_start, frac_len)
         IN  IF frac_len0 = 0 THEN Fail(out, UT_ERR_INVALID_FORMAT)
             ELSE IF frac_len0 > 9 /\ strict THEN Fail(out, UT_ERR_FRACTION_TOO_LONG)
             ELSE IF frac_nanos < 0 THEN Fail(out, UT_ERR_INVALID_FORMAT)
             ELSE parse_designator(str, out, strict, len, pos,
                                   year, month, day, hour, minute, second, frac_nanos)
    ELSE parse_designator(str, out, strict, len, 19,
                          year, month, day, hour, minute, second, 0)

\* static ut_error_t parse_timestamp(const char *str, ut_timestamp_t *out, bool strict)
\* The result is the return value and the content of the caller's timestamp.
parse_timestamp(str, out, strict) ==
    IF str = NULL_STR \/ out.null THEN Fail(out, UT_ERR_NULL_POINTER)
    ELSE
    LET len == Len(str)
        year == ut_internal_parse_int(str, 0, 4)
        month == ut_internal_parse_int(str, 5, 2)
        day == ut_internal_parse_int(str, 8, 2)
        hour == ut_internal_parse_int(str, 11, 2)
        minute == ut_internal_parse_int(str, 14, 2)
        second == ut_internal_parse_int(str, 17, 2)
    IN  IF len < 19 THEN Fail(out, UT_ERR_INVALID_FORMAT)
        ELSE IF \/ At(str, 4) # "-" \/ At(str, 7) # "-" \/ At(str, 10) # "T"
                \/ At(str, 13) # ":" \/ At(str, 16) # ":"
        THEN Fail(out, UT_ERR_INVALID_FORMAT)
        ELSE IF \/ year < 0 \/ month < 0 \/ day < 0
                \/ hour < 0 \/ minute < 0 \/ second < 0
        THEN Fail(out, UT_ERR_INVALID_FORMAT)
        ELSE IF TimeOutOfRange(hour, minute, second) THEN Fail(out, UT_ERR_OUT_OF_RANGE)
        ELSE IF second = 60 THEN Fail(out, UT_ERR_LEAP_SECOND)
        ELSE IF ~ut_internal_validate_date(year, month, day)
        THEN Fail(out, UT_ERR_INVALID_DATE)
        ELSE parse_fraction(str, out, strict, len, year, month, day, hour, minute, second)

\* A strict entry point that passes the lenient flag.
ut_parse_strict_lenient_flag(str, out) == parse_timestamp(str, out, FALSE)

\* ut_error_t ut_parse_strict(const char *str, ut_timestamp_t *out)
ut_parse_strict(str, out) == parse_timestamp(str, out, TRUE)

\* A lenient entry point that reads the nineteen characters of the body only.
ut_parse_lenient_body_only(str, out) ==
    parse_timestamp(IF str = NULL_STR \/ Len(str) < 19 THEN str ELSE SubSeq(str, 1, 19),
                    out, FALSE)

\* ut_error_t ut_parse_lenient(const char *str, ut_timestamp_t *out)
ut_parse_lenient(str, out) == parse_timestamp(str, out, FALSE)

\* ------------------------------------------------------------------------
\* ut_format.c

\* The decimal digits of n >= 0, most significant first.
RECURSIVE Decimal(_)
Decimal(n) ==
    IF n < 10 THEN <<DIGITS[n + 1]>>
    ELSE Decimal(n \div 10) \o <<DIGITS[(n % 10) + 1]>>

RECURSIVE ZeroPad(_, _)
ZeroPad(digits, width) ==
    IF Len(digits) >= width THEN digits ELSE ZeroPad(<<"0">> \o digits, width)

\* snprintf's %0<width>d
PrintfD(n, width) ==
    IF n < 0 THEN <<"-">> \o ZeroPad(Decimal(-n), width - 1)
    ELSE ZeroPad(Decimal(n), width)

\* for (i = 8; i >= 0; i--) { frac_buf[i] = '0' + (frac_temp % 10); frac_temp /= 10; }
RECURSIVE FracDigits(_, _)
FracDigits(frac_temp, i) ==
    IF i < 0 THEN <<>>
    ELSE FracDigits(frac_temp \div 10, i - 1) \o <<DIGITS[(frac_temp % 10) + 1]>>

\* A formatter that keeps all nine digits.
StripZeros_kept(frac_buf, digits) == digits

\* while (digits > 1 && frac_buf[digits - 1] == '0') digits--;
RECURSIVE StripZeros(_, _)
StripZeros(frac_buf, digits) ==
    IF digits > 1 /\ frac_buf[digits] = "0" THEN StripZeros(frac_buf, digits - 1)
    ELSE digits

\* The text snprintf is asked to write.
Formatted(bd, include) ==
    LET head == PrintfD(bd.year, 4) \o <<"-">> \o PrintfD(bd.month, 2) \o <<"-">>
                \o PrintfD(bd.day, 2) \o <<"T">> \o PrintfD(bd.hour, 2) \o <<":">>
                \o PrintfD(bd.minute, 2) \o <<":">> \o PrintfD(bd.second, 2)
        frac_buf == FracDigits(bd.frac_nanos, 8)
        digits == StripZeros(frac_buf, 9)
    IN  IF include /\ bd.frac_nanos > 0
        THEN head \o <<".">> \o SubSeq(frac_buf, 1, digits) \o <<"Z">>
        ELSE head \o <<"Z">>

\* A formatter that checks the pointer but not the size.
ut_format_any_size(nanos, buffer, size, include) ==
    IF buffer.null THEN [len |-> -1, text |-> buffer.text]
    ELSE LET text == Formatted(ut_internal_from_nanos(nanos), include)
         IN  [len |-> Len(text),
              text |-> IF Len(text) < size THEN text ELSE SubSeq(text, 1, size - 1)]

\* int ut_format(ut_timestamp_t ts, char *buf, size_t buf_size, bool include_nanos)
\* The result is the return value and the content of the caller's buffer.
ut_format(nanos, buffer, size, include) ==
    IF buffer.null \/ size < UT_MAX_STRING_LEN THEN [len |-> -1, text |-> buffer.text]
    ELSE LET text == Formatted(ut_internal_from_nanos(nanos), include)
         IN  [len |-> Len(text),
              text |-> IF Len(text) < size THEN text ELSE SubSeq(text, 1, size - 1)]

\* ------------------------------------------------------------------------
\* Bounds of the generator model

NumThreads == 2     \* threads calling ut_now_monotonic
MaxCalls == 2       \* calls each thread makes
MaxClock == 2       \* the wall clock reads 0 .. MaxClock nanoseconds
MaxSpurious == 1    \* spurious failures of the weak compare-and-swap per call

Threads == 1..NumThreads
ClockReadings == 0..MaxClock
CALLBACK == "callback"

\* ut_timestamp_t current; int64_t last; int64_t new_val;  -- the locals of a
\* thread outside a call: a number that is no clock reading and is never stored
NO_VALUE == -1

\* char buf[...]: the content of a buffer nothing has been written to
UNWRITTEN == <<"?">>

\* Idle values of the parts a specification does not exercise.
IdleGenerator ==
    /\ g_last_monotonic = 0
    /\ g_regression_callback = NULL
    /\ pc = [t \in Threads |-> "idle"]
    /\ current = [t \in Threads |-> NO_VALUE]
    /\ last = [t \in Threads |-> NO_VALUE]
    /\ new_val = [t \in Threads |-> NO_VALUE]
    /\ calls = [t \in Threads |-> 0]
    /\ spurious = [t \in Threads |-> 0]
    /\ notified = [t \in Threads |-> <<>>]
    /\ before = [t \in Threads |-> {}]
    /\ returned = {}
    /\ emitted = <<>>
    /\ mock = <<>>

IdleParser ==
    /\ input = NULL_STR
    /\ mode = NULL
    /\ err = NULL
    /\ ts = [null |-> FALSE, nanos |-> PRIOR]
    /\ parts = [body |-> NULL_STR, frac |-> <<>>, suffix |-> <<>>]

IdleFormatter ==
    /\ rt_pc = "start"
    /\ original = I64Zero
    /\ buf = UNWRITTEN
    /\ fmt_len = 0
    /\ include_nanos = TRUE
    /\ buf_size = UT_MAX_STRING_LEN

\* int era_year; ...: the content of a variable nothing has been written to
UNSET == "unset"

IdleCalendar ==
    /\ when = NULL
    /\ cal_ts = I64Zero
    /\ cal_op = NULL
    /\ cal_err = NULL
    /\ era = UNSET
    /\ era_year = UNSET
    /\ iso = UNSET
    /\ fields = UNSET
    /\ year_in = 0
    /\ year_out = UNSET

\* ------------------------------------------------------------------------
\* ut_now.c: the monotonic generator

\* static atomic_int_fast64_t g_last_monotonic = ATOMIC_VAR_INIT(0);
\* static ut_regression_callback_t g_regression_callback = NULL;
InitGenerator == IdleGenerator /\ IdleParser /\ IdleFormatter /\ IdleCalendar

\* A call through a null function pointer ends the process.
Alive == \A t \in Threads : pc[t] # "crashed"

\* A generator comparing with < instead of <=.
Regressed_strictly(cur, lst) == cur < lst

\* if (current.nanos <= last)
Regressed(cur, lst) == cur <= lst

\* ut_timestamp_t current = ut_now();  -- the clock reads `now`
ut_now_reads(t, now) ==
    /\ Alive
    /\ pc[t] = "idle"
    /\ calls[t] < MaxCalls
    /\ current' = [current EXCEPT ![t] = now]
    /\ calls' = [calls EXCEPT ![t] = @ + 1]
    /\ before' = [before EXCEPT ![t] = returned]
    /\ pc' = [pc EXCEPT ![t] = "load"]
    /\ UNCHANGED <<parseVars, fmtVars, calVars, mock>>
    /\ UNCHANGED <<g_last_monotonic, g_regression_callback, last, new_val,
                   spurious, notified, returned, emitted>>

\* a call begins; the wall clock may read anything
ut_now(t) == \E now \in ClockReadings : ut_now_reads(t, now)

RECURSIVE Started(_)
Started(S) ==
    IF S = {} THEN 0
    ELSE LET t == CHOOSE x \in S : TRUE IN calls[t] + Started(S \ {t})

\* a call begins while no other call is in progress; the clock is mocked and
\* gives the next reading of its script
ut_now_mocked(t) ==
    /\ \A u \in Threads : pc[u] = "idle"
    /\ Started(Threads) < Len(mock)
    /\ ut_now_reads(t, mock[Started(Threads) + 1])

\* int64_t last = atomic_load(&g_last_monotonic);
atomic_load(t) ==
    /\ Alive
    /\ pc[t] = "load"
    /\ pc' = [pc EXCEPT ![t] = "compare"]
    /\ last' = [last EXCEPT ![t] = g_last_monotonic]
    /\ UNCHANGED <<parseVars, fmtVars, calVars, mock>>
    /\ UNCHANGED <<g_last_monotonic, g_regression_callback, current, new_val,
                   calls, spurious, notified, before, returned, emitted>>

\* A generator that synthesizes the stored value itself.
Synthesized_same(lst) == lst

\* new_val = last + 1;
Synthesized(lst) == lst + 1

\* if (current.nanos <= last) { new_val = last + 1; ... } else { new_val = current.nanos; }
compare(t) ==
    /\ Alive
    /\ pc[t] = "compare"
    /\ IF Regressed(current[t], last[t])
       THEN /\ pc' = [pc EXCEPT ![t] = "check_callback"]
            /\ new_val' = [new_val EXCEPT ![t] = Synthesized(last[t])]
       ELSE /\ pc' = [pc EXCEPT ![t] = "cas"]
            /\ new_val' = [new_val EXCEPT ![t] = current[t]]
    /\ UNCHANGED <<parseVars, fmtVars, calVars, mock>>
    /\ UNCHANGED <<g_last_monotonic, g_regression_callback, current, last,
                   calls, spurious, notified, before, returned, emitted>>

\* A generator that waits at the null test until a callback is registered.
check_callback_waits(t) ==
    /\ Alive
    /\ pc[t] = "check_callback"
    /\ g_regression_callback # NULL
    /\ pc' = [pc EXCEPT ![t] = "call_callback"]
    /\ UNCHANGED <<parseVars, fmtVars, calVars, mock>>
    /\ UNCHANGED <<g_last_monotonic, g_regression_callback, current, last, new_val,
                   calls, spurious, notified, before, returned, emitted>>

\* if (g_regression_callback != NULL)
check_callback(t) ==
    /\ Alive
    /\ pc[t] = "check_callback"
    /\ IF g_regression_callback # NULL
       THEN pc' = [pc EXCEPT ![t] = "call_callback"]
       ELSE pc' = [pc EXCEPT ![t] = "cas"]
    /\ UNCHANGED <<parseVars, fmtVars, calVars, mock>>
    /\ UNCHANGED <<g_last_monotonic, g_regression_callback, current, last, new_val,
                   calls, spurious, notified, before, returned, emitted>>

\* g_regression_callback(expected, current, adjusted);
\* g_regression_callback is a plain global that ut_set_regression_callback may
\* write at any time.  The call uses the pointer the null test loaded, or loads
\* it again: with a callback registered either way calls it; after a concurrent
\* ut_set_regression_callback(NULL) the kept pointer still calls the callback
\* (this action), the reloaded one is null (call_null).
call_callback(t) ==
    /\ Alive
    /\ pc[t] = "call_callback"
    /\ notified' = [notified EXCEPT ![t] = Append(@,
            [expected |-> last[t] + 1, actual |-> current[t], adjusted |-> new_val[t]])]
    /\ pc' = [pc EXCEPT ![t] = "cas"]
    /\ UNCHANGED <<parseVars, fmtVars, calVars, mock>>
    /\ UNCHANGED <<g_last_monotonic, g_regression_callback, current, last, new_val,
                   calls, spurious, before, returned, emitted>>

\* g_regression_callback(expected, current, adjusted) with the pointer loaded
\* again after another thread has stored NULL: a call through a null pointer
call_null(t) ==
    /\ Alive
    /\ pc[t] = "call_callback"
    /\ g_regression_callback = NULL
    /\ pc' = [pc EXCEPT ![t] = "crashed"]
    /\ UNCHANGED <<parseVars, fmtVars, calVars, mock>>
    /\ UNCHANGED <<g_last_monotonic, g_regression_callback, current, last, new_val,
                   calls, spurious, notified, before, returned, emitted>>

\* A generator that stores new_val without comparing (a plain read-then-write).
cas_success_plain_store(t) ==
    /\ Alive
    /\ pc[t] = "cas"
    /\ g_last_monotonic' = new_val[t]
    /\ emitted' = Append(emitted, new_val[t])
    /\ pc' = [pc EXCEPT ![t] = "return"]
    /\ UNCHANGED <<parseVars, fmtVars, calVars, mock>>
    /\ UNCHANGED <<g_regression_callback, current, last, new_val,
                   calls, spurious, notified, before, returned>>

\* while (!atomic_compare_exchange_weak(&g_last_monotonic, &last, new_val)): success
cas_success(t) ==
    /\ Alive
    /\ pc[t] = "cas"
    /\ g_last_monotonic = last[t]
    /\ g_last_monotonic' = new_val[t]
    /\ emitted' = Append(emitted, new_val[t])
    /\ pc' = [pc EXCEPT ![t] = "return"]
    /\ UNCHANGED <<parseVars, fmtVars, calVars, mock>>
    /\ UNCHANGED <<g_regression_callback, current, last, new_val,
                   calls, spurious, notified, before, returned>>

\* the compare-and-swap fails because another value is stored: `last` is
\* reloaded and the loop body runs again
cas_failure(t) ==
    /\ Alive
    /\ pc[t] = "cas"
    /\ g_last_monotonic # last[t]
    /\ pc' = [pc EXCEPT ![t] = "compare"]
    /\ last' = [last EXCEPT ![t] = g_last_monotonic]
    /\ UNCHANGED <<parseVars, fmtVars, calVars, mock>>
    /\ UNCHANGED <<g_last_monotonic, g_regression_callback, current, new_val,
                   calls, spurious, notified, before, returned, emitted>>

\* the weak compare-and-swap fails although the stored value is the expected one
cas_spurious_failure(t) ==
    /\ Alive
    /\ pc[t] = "cas"
    /\ g_last_monotonic = last[t]
    /\ spurious[t] < MaxSpurious
    /\ spurious' = [spurious EXCEPT ![t] = @ + 1]
    /\ pc' = [pc EXCEPT ![t] = "compare"]
    /\ UNCHANGED <<parseVars, fmtVars, calVars, mock>>
    /\ UNCHANGED <<g_last_monotonic, g_regression_callback, current, last, new_val,
                   calls, notified, before, returned, emitted>>

\* ut_timestamp_t result = {new_val}; return result;  -- the locals end here
return_result(t) ==
    /\ Alive
    /\ pc[t] = "return"
    /\ pc' = [pc EXCEPT ![t] = "idle"]
    /\ returned' = returned \cup {new_val[t]}
    /\ current' = [current EXCEPT ![t] = NO_VALUE]
    /\ last' = [last EXCEPT ![t] = NO_VALUE]
    /\ new_val' = [new_val EXCEPT ![t] = NO_VALUE]
    /\ spurious' = [spurious EXCEPT ![t] = 0]
    /\ notified' = [notified EXCEPT ![t] = <<>>]
    /\ before' = [before EXCEPT ![t] = {}]
    /\ UNCHANGED <<parseVars, fmtVars, calVars, mock>>
    /\ UNCHANGED <<g_last_monotonic, g_regression_callback, calls, emitted>>

\* void ut_set_regression_callback(ut_regression_callback_t callback)
ut_set_regression_callback(callback) ==
    /\ Alive
    /\ g_regression_callback' = callback
    /\ UNCHANGED <<parseVars, fmtVars, calVars, mock>>
    /\ UNCHANGED <<g_last_monotonic, pc, current, last, new_val,
                   calls, spurious, notified, before, returned, emitted>>

NextGenerator ==
    \/ \E t \in Threads : ut_now(t)
    \/ \E t \in Threads : atomic_load(t)
    \/ \E t \in Threads : compare(t)
    \/ \E t \in Threads : check_callback(t)
    \/ \E t \in Threads : call_callback(t)
    \/ \E t \in Threads : call_null(t)
    \/ \E t \in Threads : cas_success(t)
    \/ \E t \in Threads : cas_failure(t)
    \/ \E t \in Threads : cas_spurious_failure(t)
    \/ \E t \in Threads : return_result(t)
    \/ \E callback \in {NULL, CALLBACK} : ut_set_regression_callback(callback)

SpecGenerator == InitGenerator /\ [][NextGenerator]_vars

\* ------------------------------------------------------------------------
\* The generator under one caller at a time and a mocked clock
\* (wiki-to-copy/specification.md, "Monotonic Sequence")

MockVector == <<1000000000, 500000000, 1000000001>>

MockScripts ==
    {MockVector} \cup
    {<<a, b, c>> : a \in ClockReadings, b \in ClockReadings, c \in ClockReadings}

InitSequential ==
    /\ IdleParser
    /\ IdleFormatter
    /\ IdleCalendar
    /\ g_last_monotonic = 0
    /\ g_regression_callback = NULL
    /\ pc = [t \in Threads |-> "idle"]
    /\ current = [t \in Threads |-> NO_VALUE]
    /\ last = [t \in Threads |-> NO_VALUE]
    /\ new_val = [t \in Threads |-> NO_VALUE]
    /\ calls = [t \in Threads |-> 0]
    /\ spurious = [t \in Threads |-> 0]
    /\ notified = [t \in Threads |-> <<>>]
    /\ before = [t \in Threads |-> {}]
    /\ returned = {}
    /\ emitted = <<>>
    /\ mock \in MockScripts

\* ut_set_regression_callback called between two calls of the generator
set_callback_between_calls(callback) ==
    /\ \A u \in Threads : pc[u] = "idle"
    /\ ut_set_regression_callback(callback)

NextSequential ==
    \/ \E t \in Threads : ut_now_mocked(t)
    \/ \E t \in Threads : atomic_load(t)
    \/ \E t \in Threads : compare(t)
    \/ \E t \in Threads : check_callback(t)
    \/ \E t \in Threads : call_callback(t)
    \/ \E t \in Threads : cas_success(t)
    \/ \E t \in Threads : cas_spurious_failure(t)
    \/ \E t \in Threads : return_result(t)
    \/ \E callback \in {NULL, CALLBACK} : set_callback_between_calls(callback)

SpecSequential == InitSequential /\ [][NextSequential]_vars

\* ------------------------------------------------------------------------
\* The generator under contention, scheduled fairly, with no callback registered

\* atomic_compare_exchange_weak may fail although the stored value is the
\* expected one, and nothing in the function limits how often: `last` is
\* rewritten with the same value and the loop body runs again
cas_weak_failure(t) ==
    /\ Alive
    /\ pc[t] = "cas"
    /\ g_last_monotonic = last[t]
    /\ pc' = [pc EXCEPT ![t] = "compare"]
    /\ UNCHANGED <<parseVars, fmtVars, calVars, mock>>
    /\ UNCHANGED <<g_last_monotonic, g_regression_callback, current, last, new_val,
                   calls, spurious, notified, before, returned, emitted>>

\* the steps of a call that thread t has started: the scheduler runs every
\* thread that can take a step (each of the steps moves the thread's position)
Progress(t) ==
    \/ atomic_load(t)
    \/ compare(t)
    \/ check_callback(t)
    \/ cas_success(t)
    \/ cas_failure(t)
    \/ cas_weak_failure(t)
    \/ return_result(t)

NextContention ==
    \/ \E t \in Threads : ut_now(t)
    \/ \E t \in Threads : atomic_load(t)
    \/ \E t \in Threads : compare(t)
    \/ \E t \in Threads : check_callback(t)
    \/ \E t \in Threads : cas_success(t)
    \/ \E t \in Threads : cas_failure(t)
    \/ \E t \in Threads : cas_weak_failure(t)
    \/ \E t \in Threads : return_result(t)

SpecContention ==
    /\ InitGenerator
    /\ [][NextContention]_vars
    /\ \A t \in Threads : WF_pc(Progress(t))

\* ------------------------------------------------------------------------
\* Properties of the generator

Range(q) == {q[i] : i \in DOMAIN q}

\* C1: whatever the clock reads, every successful compare-and-swap raises
\* g_last_monotonic by at least 1 ns over the value it replaces (0 at first), so
\* the installed values are strictly increasing and g_last_monotonic, the latest
\* of them, never decreases; the value a call returns is a value it installed.
C1_StrictlyIncreasing ==
    /\ \A i \in DOMAIN emitted :
          emitted[i] >= (IF i = 1 THEN 0 ELSE emitted[i - 1]) + 1
    /\ g_last_monotonic = (IF emitted = <<>> THEN 0 ELSE emitted[Len(emitted)])
    /\ \A t \in Threads :
          pc[t] = "return" => new_val[t] \in Range(emitted)

\* C1 witness: a third value is installed by a call whose clock reading was not
\* above the value it replaced (a stalled or backward clock).
C1_Witness ==
    \E t \in Threads :
        /\ pc[t] = "return"
        /\ Len(emitted) >= 3
        /\ current[t] <= last[t]
        /\ new_val[t] = emitted[Len(emitted)]

\* C2: a call that starts after another call has returned returns a strictly
\* greater value than that call, under every interleaving.
C2_RealTimeOrder ==
    \A t \in Threads :
        pc[t] = "return" => \A earlier \in before[t] : new_val[t] > earlier

\* C2 witness: a call that began after a result had been returned and read a
\* clock value below that result returns while another call is in flight.
C2_Witness ==
    \E t \in Threads :
        /\ pc[t] = "return"
        /\ \E earlier \in before[t] : current[t] < earlier
        /\ \E u \in Threads :
              u # t /\ pc[u] \in {"compare", "check_callback", "call_callback", "cas"}

\* ------------------------------------------------------------------------
\* Inputs of the parser model

Dec2(n) == <<DIGITS[(n \div 10) + 1], DIGITS[(n % 10) + 1]>>
Dec4(n) == Dec2(n \div 100) \o Dec2(n % 100)

Body(date, time) ==
    Dec4(date[1]) \o <<"-">> \o Dec2(date[2]) \o <<"-">> \o Dec2(date[3]) \o <<"T">>
    \o Dec2(time[1]) \o <<":">> \o Dec2(time[2]) \o <<":">> \o Dec2(time[3])

ValidDates ==
    {<<2024, 12, 14>>, <<1970, 1, 1>>, <<1969, 12, 31>>, <<2000, 2, 29>>,
     <<2024, 2, 29>>, <<9999, 12, 31>>, <<0, 1, 1>>}

InvalidDates ==
    {<<1900, 2, 29>>, <<2023, 2, 29>>, <<2100, 2, 29>>, <<2024, 2, 30>>,
     <<2024, 0, 10>>, <<2024, 13, 1>>, <<2024, 4, 31>>, <<2024, 1, 0>>,
     <<2024, 1, 32>>}

ValidTimes == {<<3, 13, 21>>, <<0, 0, 0>>, <<23, 59, 59>>}

InvalidTimes ==
    {<<24, 0, 0>>, <<0, 60, 0>>, <<0, 0, 60>>, <<23, 59, 60>>, <<0, 0, 61>>,
     <<99, 99, 99>>}

Fractions ==
    {<<>>,
     <<".", "5">>,
     <<".", "0", "5", "0">>,
     <<".", "1", "2", "3", "4", "5", "6", "7", "8", "9">>,
     <<".", "1", "2", "3", "4", "5", "6", "7", "8", "9", "9">>,
     <<".">>,
     <<".", "1", "a">>}

Offset(sign, hh, mm) == <<sign>> \o Dec2(hh) \o <<":">> \o Dec2(mm)

Offsets ==
    {Offset(sign, o[1], o[2]) :
        sign \in {"+", "-"}, o \in {<<0, 0>>, <<0, 1>>, <<1, 0>>, <<5, 30>>}}

Suffixes ==
    {<<"Z">>, <<>>, <<"z">>} \cup Offsets \cup
    {<<"+", "0", "0", "0", "0">>, <<"+">>, <<"-", "0", "0">>,
     <<"+", "0", "0", "x", "0", "0">>, <<"-", "a", "0", ":", "0", "0">>,
     <<"+", "0", "0", ":", "0", "b">>,
     <<"Z", " ">>, <<"Z", "Z">>, <<"z", " ">>, <<" ", "Z">>, <<"X">>, <<" ">>,
     <<"+", "0", "0", ":", "0", "0", "Z">>}

FewFractions == {<<>>, <<".", "5">>, <<".">>}

FewSuffixes ==
    {<<"Z">>, <<>>, <<"z">>, Offset("+", 0, 0), Offset("-", 1, 0), <<"Z", " ">>}

\* body[i] replaced by c
Replace(body, i, c) == [body EXCEPT ![i + 1] = c]

BaseBody == Body(<<2024, 12, 14>>, <<3, 13, 21>>)

MalformedBodies ==
    {Replace(BaseBody, i, c) : i \in 0..18, c \in {" ", "x", "t", "-", ":", "/"}}

ShortBodies == {SubSeq(BaseBody, 1, n) : n \in 0..18}

Parts(bodies, fractions, suffixes) ==
    {[body |-> body, frac |-> frac, suffix |-> suffix] :
        body \in bodies, frac \in fractions, suffix \in suffixes}

InputParts ==
    Parts({Body(date, time) : date \in ValidDates, time \in ValidTimes},
          Fractions, Suffixes)
    \cup
    Parts({Body(date, time) : date \in InvalidDates, time \in ValidTimes \cup InvalidTimes}
          \cup {Body(date, time) : date \in ValidDates, time \in InvalidTimes},
          FewFractions, FewSuffixes)
    \cup
    Parts(MalformedBodies \cup ShortBodies, {<<>>, <<".", "5">>},
          {<<"Z">>, <<>>, <<"z">>, Offset("+", 0, 0)})
    \cup
    Parts({NULL_STR}, {<<>>}, {<<>>})

Text(p) == IF p.body = NULL_STR THEN NULL_STR ELSE p.body \o p.frac \o p.suffix

\* ------------------------------------------------------------------------
\* The parser under its callers (test.c: test_parse_strict, test_parse_lenient)

\* The caller holds a text and a timestamp object, or passes a null pointer.
InitParser ==
    /\ IdleGenerator
    /\ IdleFormatter
    /\ IdleCalendar
    /\ parts \in InputParts
    /\ input = Text(parts)
    /\ ts \in {[null |-> null, nanos |-> PRIOR] :
                  null \in IF parts.frac = <<>> /\ parts.suffix = <<"Z">>
                           THEN BOOLEAN ELSE {FALSE}}
    /\ mode = NULL
    /\ err = NULL

\* err = ut_parse_strict(str, &ts);
call_ut_parse_strict ==
    /\ mode = NULL
    /\ LET r == ut_parse_strict(input, ts)
       IN  /\ err' = r.err
           /\ ts' = [ts EXCEPT !.nanos = r.nanos]
    /\ mode' = "strict"
    /\ UNCHANGED <<genVars, fmtVars, calVars, input, parts>>

\* err = ut_parse_lenient(str, &ts);
call_ut_parse_lenient ==
    /\ mode = NULL
    /\ LET r == ut_parse_lenient(input, ts)
       IN  /\ err' = r.err
           /\ ts' = [ts EXCEPT !.nanos = r.nanos]
    /\ mode' = "lenient"
    /\ UNCHANGED <<genVars, fmtVars, calVars, input, parts>>

NextParser == call_ut_parse_strict \/ call_ut_parse_lenient

SpecParser == InitParser /\ [][NextParser]_vars

\* ------------------------------------------------------------------------
\* The formatter and the parser under test.c: test_round_trip

DaySamples == {0, 1, 58, 59, 365, 789, 11016, 11017, 20071, 106750, 106751}
SecondSamples == {0, 1, 11601, 85636, 86399}
FractionSamples ==
    {0, 1, 10, 50000000, 123456789, 500000000, 854775807, 854775808, 999999999}

Instants ==
    {x \in {I64(neg, d, s, f) : neg \in BOOLEAN, d \in DaySamples,
                                s \in SecondSamples, f \in FractionSamples} :
        InInt64(x)}

BufferSizes == {UT_MAX_STRING_LEN - 1, UT_MAX_STRING_LEN}

InitFormatter ==
    /\ IdleGenerator
    /\ IdleParser
    /\ IdleCalendar
    /\ rt_pc = "start"
    /\ original \in Instants
    /\ include_nanos \in BOOLEAN
    /\ buf_size \in BufferSizes
    /\ buf \in {UNWRITTEN, NULL_STR}
    /\ fmt_len = 0

\* char buf[...]; ut_format(original, buf, sizeof(buf), include_nanos);
\* (or a null pointer for buf)
call_ut_format ==
    /\ rt_pc = "start"
    /\ LET r == ut_format(original, [null |-> buf = NULL_STR, text |-> buf], buf_size,
                          include_nanos)
       IN  /\ fmt_len' = r.len
           /\ buf' = r.text
    /\ rt_pc' = "formatted"
    /\ UNCHANGED <<genVars, parseVars, calVars, original, include_nanos, buf_size>>

\* ut_timestamp_t parsed; err = ut_parse_strict(buf, &parsed);
call_ut_parse_strict_buf ==
    /\ rt_pc = "formatted"
    /\ fmt_len >= 0
    /\ LET r == ut_parse_strict(buf, [null |-> FALSE, nanos |-> PRIOR])
       IN  /\ err' = r.err
           /\ ts' = [null |-> FALSE, nanos |-> r.nanos]
    /\ input' = buf
    /\ mode' = "strict"
    /\ rt_pc' = "parsed"
    /\ UNCHANGED <<genVars, calVars, parts, original, buf, fmt_len, include_nanos, buf_size>>

NextFormatter == call_ut_format \/ call_ut_parse_strict_buf

SpecFormatter == InitFormatter /\ [][NextFormatter]_vars

\* ------------------------------------------------------------------------
\* The grammar of the timestamp text, read from the documentation of the
\* format (wiki-to-copy/specification.md), for stating the parser's properties

DecimalDigits == {"0", "1", "2", "3", "4", "5", "6", "7", "8", "9"}

ValueOf(c) == CHOOSE n \in 0..9 : DIGITS[n + 1] = c

Two(text, i) == 10 * ValueOf(text[i]) + ValueOf(text[i + 1])

\* YYYY-MM-DDTHH:MM:SS with a digit in every digit position
WellFormedBody(text) ==
    /\ Len(text) = 19
    /\ text[5] = "-" /\ text[8] = "-" /\ text[11] = "T"
    /\ text[14] = ":" /\ text[17] = ":"
    /\ \A i \in (1..19) \ {5, 8, 11, 14, 17} : text[i] \in DecimalDigits

YearOf(text) == 100 * Two(text, 1) + Two(text, 3)
MonthOf(text) == Two(text, 6)
DayOf(text) == Two(text, 9)
HourOf(text) == Two(text, 12)
MinuteOf(text) == Two(text, 15)
SecondOf(text) == Two(text, 18)

GregorianLeap(y) == (y % 4 = 0 /\ y % 100 # 0) \/ y % 400 = 0

MonthLength(y, m) ==
    IF m = 2 THEN (IF GregorianLeap(y) THEN 29 ELSE 28)
    ELSE IF m \in {4, 6, 9, 11} THEN 30 ELSE 31

DateExists(y, m, d) == m \in 1..12 /\ d >= 1 /\ d <= MonthLength(y, m)

TimeInRange(text) == HourOf(text) <= 23 /\ MinuteOf(text) <= 59 /\ SecondOf(text) <= 59

ValidBody(text) ==
    /\ WellFormedBody(text)
    /\ DateExists(YearOf(text), MonthOf(text), DayOf(text))
    /\ TimeInRange(text)

\* '.' and one to nine digits
ValidFraction(text) ==
    /\ Len(text) \in 2..10
    /\ text[1] = "."
    /\ \A i \in 2..Len(text) : text[i] \in DecimalDigits

OptionalFraction(text) == text = <<>> \/ ValidFraction(text)

\* sign HH:MM
WellFormedOffset(text) ==
    /\ Len(text) = 6
    /\ text[1] \in {"+", "-"}
    /\ text[4] = ":"
    /\ \A i \in {2, 3, 5, 6} : text[i] \in DecimalDigits

\* YYYY-MM-DDTHH:MM:SS[.d{1,9}]Z
Canonical(text) ==
    /\ text # NULL_STR
    /\ Len(text) >= 20
    /\ ValidBody(SubSeq(text, 1, 19))
    /\ text[Len(text)] = "Z"
    /\ OptionalFraction(SubSeq(text, 20, Len(text) - 1))

\* the instant the strict parser gives for the body, the fraction and 'Z'
StrictWithZ(p) == ut_parse_strict(p.body \o p.frac \o <<"Z">>, [null |-> FALSE, nanos |-> PRIOR])

Called == mode # NULL /\ input # NULL_STR /\ ~ts.null

\* ------------------------------------------------------------------------
\* Properties of the round trip (SpecFormatter)

\* C3: formatting any instant of the signed 64-bit range with include_nanos
\* and parsing the text strictly succeeds and returns the instant formatted.
C3_RoundTrip ==
    (rt_pc = "parsed" /\ include_nanos) => (err = UT_OK /\ ts.nanos = original)

\* C3 witness: an instant before the epoch with a fraction that has trailing
\* zeros went through ut_format and came back from ut_parse_strict.
C3_Witness ==
    /\ rt_pc = "parsed"
    /\ include_nanos
    /\ original.neg
    /\ original.f = 50000000
    /\ err = UT_OK
    /\ ts.nanos = original

\* ------------------------------------------------------------------------
\* Properties of the parser (SpecParser)

\* C4: ut_parse_strict returns UT_OK exactly for the texts of the shape
\* YYYY-MM-DDTHH:MM:SS[.d{1,9}]Z with an existing date and hour <= 23,
\* minute <= 59, second <= 59; every other non-null text is rejected.
C4_StrictAcceptsExactlyCanonical ==
    (Called /\ mode = "strict") => (err = UT_OK <=> Canonical(input))

\* C4 witness: the strict parser accepted a canonical text with nine
\* fractional digits.
C4_Witness ==
    /\ Called
    /\ mode = "strict"
    /\ err = UT_OK
    /\ Len(parts.frac) = 10
    /\ Canonical(input)

\* C5: a valid body with an optional fraction of one to nine digits that ends
\* without a designator or with 'z' is INVALID_FORMAT in strict mode, and in
\* lenient mode is accepted with the instant the strict parser gives for the
\* same text ending in 'Z'.
C5_LenientMissingOrLowercaseZ ==
    (/\ Called
     /\ ValidBody(parts.body)
     /\ OptionalFraction(parts.frac)
     /\ parts.suffix \in {<<>>, <<"z">>})
    => /\ mode = "strict" => err = UT_ERR_INVALID_FORMAT
       /\ mode = "lenient" =>
            /\ err = UT_OK
            /\ StrictWithZ(parts).err = UT_OK
            /\ ts.nanos = StrictWithZ(parts).nanos

\* C5 witness: the lenient parser accepted a text with a fraction and 'z'.
C5_Witness ==
    /\ Called
    /\ mode = "lenient"
    /\ ValidBody(parts.body)
    /\ ValidFraction(parts.frac)
    /\ parts.suffix = <<"z">>
    /\ err = UT_OK
    /\ ts.nanos # PRIOR

\* C6: in lenient mode a valid body followed by a well-formed offset sign HH:MM
\* is accepted exactly when the offset is zero, with the instant of the same
\* text ending in 'Z'; a non-zero offset is UNSUPPORTED_OFFSET.
C6_LenientOffset ==
    (/\ Called
     /\ mode = "lenient"
     /\ ValidBody(parts.body)
     /\ OptionalFraction(parts.frac)
     /\ WellFormedOffset(parts.suffix))
    => IF Two(parts.suffix, 2) = 0 /\ Two(parts.suffix, 5) = 0
       THEN /\ err = UT_OK
            /\ StrictWithZ(parts).err = UT_OK
            /\ ts.nanos = StrictWithZ(parts).nanos
       ELSE err = UT_ERR_UNSUPPORTED_OFFSET

\* C6 witness: the lenient parser rejected an offset of one minute.
C6_Witness ==
    /\ Called
    /\ mode = "lenient"
    /\ ValidBody(parts.body)
    /\ parts.suffix = Offset("+", 0, 1)
    /\ err = UT_ERR_UNSUPPORTED_OFFSET

\* sign, two digits, ':', two digits, then anything
BeginsWithOffset(text) == Len(text) >= 6 /\ WellFormedOffset(SubSeq(text, 1, 6))

SignDesignator(p) ==
    /\ ValidBody(p.body)
    /\ OptionalFraction(p.frac)
    /\ p.suffix # <<>>
    /\ p.suffix[1] \in {"+", "-"}

\* C7 as stated: in strict mode a valid body whose designator character is
\* '+' or '-' is UNSUPPORTED_OFFSET whatever follows the sign.
C7_StrictAnySign ==
    (Called /\ mode = "strict" /\ SignDesignator(parts)) => err = UT_ERR_UNSUPPORTED_OFFSET

\* C7: in strict mode a valid body whose designator character is '+' or '-'
\* is UNSUPPORTED_OFFSET when the sign begins HH:MM, whether that offset is
\* zero or not and whatever follows it, and INVALID_FORMAT when the sign is
\* not followed by five characters of the form HH:MM.
C7_StrictOffset ==
    (Called /\ mode = "strict" /\ SignDesignator(parts))
    => IF BeginsWithOffset(parts.suffix)
       THEN err = UT_ERR_UNSUPPORTED_OFFSET
       ELSE err = UT_ERR_INVALID_FORMAT

\* C7 witness: the strict parser rejected the zero offset as unsupported.
C7_Witness ==
    /\ Called
    /\ mode = "strict"
    /\ ValidBody(parts.body)
    /\ parts.suffix = Offset("+", 0, 0)
    /\ err = UT_ERR_UNSUPPORTED_OFFSET

\* C8: in both modes a well-formed text whose second is 60 returns
\* LEAP_SECOND, also when its date does not exist.
C8_LeapSecond ==
    (/\ Called
     /\ WellFormedBody(parts.body)
     /\ HourOf(parts.body) <= 23
     /\ MinuteOf(parts.body) <= 59
     /\ SecondOf(parts.body) = 60)
    => err = UT_ERR_LEAP_SECOND

FebruaryLeapDay(text, years) ==
    /\ WellFormedBody(text)
    /\ TimeInRange(text)
    /\ YearOf(text) \in years
    /\ MonthOf(text) = 2
    /\ DayOf(text) = 29

\* C9: in both modes a text with the separators in place, digits in every
\* field and the time in range whose date does not exist returns INVALID_DATE
\* whatever follows the seconds; February 29 is accepted as a date in 2000 and
\* 2024 and rejected in 1900 and 2023.
C9_InvalidDate ==
    Called =>
        /\ (/\ WellFormedBody(parts.body)
            /\ TimeInRange(parts.body)
            /\ ~DateExists(YearOf(parts.body), MonthOf(parts.body), DayOf(parts.body)))
           => err = UT_ERR_INVALID_DATE
        /\ FebruaryLeapDay(parts.body, {1900, 2023}) => err = UT_ERR_INVALID_DATE
        /\ FebruaryLeapDay(parts.body, {2000, 2024}) => err # UT_ERR_INVALID_DATE

\* C9 witness: February 29 of 1900 followed by a '.' without digits was
\* rejected as a date.
C9_Witness ==
    /\ Called
    /\ FebruaryLeapDay(parts.body, {1900})
    /\ parts.frac = <<".">>
    /\ err = UT_ERR_INVALID_DATE

\* C10: in both modes a text with digits in every field whose hour is above
\* 23, minute above 59 or second above 60 returns OUT_OF_RANGE, also when its
\* date does not exist.
C10_OutOfRange ==
    (/\ Called
     /\ WellFormedBody(parts.body)
     /\ \/ HourOf(parts.body) > 23
        \/ MinuteOf(parts.body) > 59
        \/ SecondOf(parts.body) > 60)
    => err = UT_ERR_OUT_OF_RANGE

\* C10 witness: hour 24 on February 30 was rejected as out of range.
C10_Witness ==
    /\ Called
    /\ WellFormedBody(parts.body)
    /\ HourOf(parts.body) = 24
    /\ ~DateExists(YearOf(parts.body), MonthOf(parts.body), DayOf(parts.body))
    /\ err = UT_ERR_OUT_OF_RANGE

\* '.' and ten or more digits
LongFraction(text) ==
    /\ Len(text) >= 11
    /\ text[1] = "."
    /\ \A i \in 2..Len(text) : text[i] \in DecimalDigits

\* the designators each mode accepts
AcceptedDesignators(m) ==
    IF m = "strict" THEN {<<"Z">>}
    ELSE {<<"Z">>, <<"z">>, <<>>, Offset("+", 0, 0), Offset("-", 0, 0)}

\* the lenient result for the text with its fraction cut to nine digits
LenientCut(p) ==
    ut_parse_lenient(p.body \o SubSeq(p.frac, 1, 10) \o p.suffix,
                     [null |-> FALSE, nanos |-> PRIOR])

\* C11: with a valid body and a designator the mode accepts, a fraction of more
\* than nine digits is FRACTION_TOO_LONG in strict mode and in lenient mode is
\* accepted with the instant of the same text with the fraction cut to its
\* first nine digits; a '.' without digits is INVALID_FORMAT in both modes.
C11_FractionLength ==
    (/\ Called
     /\ ValidBody(parts.body)
     /\ parts.suffix \in AcceptedDesignators(mode))
    => /\ LongFraction(parts.frac) =>
            /\ mode = "strict" => err = UT_ERR_FRACTION_TOO_LONG
            /\ mode = "lenient" =>
                 /\ err = UT_OK
                 /\ LenientCut(parts).err = UT_OK
                 /\ ts.nanos = LenientCut(parts).nanos
       /\ parts.frac = <<".">> => err = UT_ERR_INVALID_FORMAT

\* C11 witness: the lenient parser accepted .1234567899 as 123456789 ns, not
\* rounded up to 123456790.
C11_Witness ==
    /\ Called
    /\ mode = "lenient"
    /\ ValidBody(parts.body)
    /\ LongFraction(parts.frac)
    /\ parts.frac[11] = "9"
    /\ err = UT_OK
    /\ ts.nanos.f = 123456789

\* the text begins with one of the designators and goes on after it
TextAfter(text, designators) ==
    \E d \in designators :
        /\ d # <<>>
        /\ Len(text) > Len(d)
        /\ SubSeq(text, 1, Len(d)) = d

ZeroOffsets == {Offset("+", 0, 0), Offset("-", 0, 0)}

\* C12 as stated: in both modes text after 'Z' or after '+00:00' is
\* INVALID_FORMAT.
C12_TrailingTextBothModes ==
    (/\ Called
     /\ ValidBody(parts.body)
     /\ OptionalFraction(parts.frac)
     /\ TextAfter(parts.suffix, {<<"Z">>} \cup ZeroOffsets))
    => err = UT_ERR_INVALID_FORMAT

\* C12: text after a designator the parser consumes ('Z' in both modes, 'z'
\* and a zero offset in lenient mode) is INVALID_FORMAT; in strict mode the
\* zero offset is not consumed and text after it is UNSUPPORTED_OFFSET.
C12_TrailingText ==
    (/\ Called
     /\ ValidBody(parts.body)
     /\ OptionalFraction(parts.frac))
    => /\ TextAfter(parts.suffix, AcceptedDesignators(mode)) => err = UT_ERR_INVALID_FORMAT
       /\ (mode = "strict" /\ TextAfter(parts.suffix, ZeroOffsets))
            => err = UT_ERR_UNSUPPORTED_OFFSET

\* C12 witness: the lenient parser consumed +00:00 and rejected the 'Z' after it.
C12_Witness ==
    /\ Called
    /\ mode = "lenient"
    /\ ValidBody(parts.body)
    /\ parts.suffix = Offset("+", 0, 0) \o <<"Z">>
    /\ err = UT_ERR_INVALID_FORMAT

\* C13: when ut_parse_strict or ut_parse_lenient returns an error the caller's
\* timestamp holds what it held before the call, and a null text or a null
\* timestamp pointer returns NULL_POINTER, again without a write.
C13_NoPartialSuccess ==
    mode # NULL =>
        /\ err # UT_OK => ts.nanos = PRIOR
        /\ (input = NULL_STR \/ ts.null) => (err = UT_ERR_NULL_POINTER /\ ts.nanos = PRIOR)

\* C13 witness: a text rejected at the last check of the parser, for the space
\* after its 'Z', left the caller's timestamp as it was.
C13_Witness ==
    /\ Called
    /\ ValidBody(parts.body)
    /\ ValidFraction(parts.frac)
    /\ parts.suffix = <<"Z", " ">>
    /\ err = UT_ERR_INVALID_FORMAT
    /\ ts.nanos = PRIOR

\* the value of a fraction of one to nine digits, in nanoseconds
RECURSIVE FractionValue(_, _)
FractionValue(text, i) ==
    IF i > 10 THEN 0
    ELSE (IF i <= Len(text) THEN ValueOf(text[i]) ELSE 0) * MULTIPLIERS[i - 1]
         + FractionValue(text, i + 1)

\* C14: the instant of every accepted text is inside the signed 64-bit range
\* as computed, and ut_internal_from_nanos of it gives back the parsed year,
\* month, day, hour, minute, second and fraction.
C14_AcceptedInstantValid ==
    (/\ Called
     /\ err = UT_OK
     /\ ValidBody(parts.body)
     /\ OptionalFraction(parts.frac))
    => LET text == parts.body
           frac == IF parts.frac = <<>> THEN 0 ELSE FractionValue(parts.frac, 2)
           bd == ut_internal_from_nanos(ts.nanos)
       IN  /\ InInt64(to_nanos_exact(YearOf(text), MonthOf(text), DayOf(text),
                                     HourOf(text), MinuteOf(text), SecondOf(text), frac))
           /\ bd.year = YearOf(text)
           /\ bd.month = MonthOf(text)
           /\ bd.day = DayOf(text)
           /\ bd.hour = HourOf(text)
           /\ bd.minute = MinuteOf(text)
           /\ bd.second = SecondOf(text)
           /\ bd.frac_nanos = frac

\* ------------------------------------------------------------------------
\* Properties of the formatter (SpecFormatter)

\* the nanoseconds of an instant past the whole second at or before it
FractionOf(x) == IF x.neg /\ x.f > 0 THEN NANOS_PER_SECOND - x.f ELSE x.f

Formatted_ok == rt_pc \in {"formatted", "parsed"} /\ fmt_len >= 0

EpochText == Body(<<1970, 1, 1>>, <<0, 0, 0>>) \o <<"Z">>

VectorText ==
    Body(<<2024, 12, 14>>, <<3, 13, 21>>)
    \o <<".", "1", "2", "3", "4", "5", "6", "7", "8", "9", "Z">>

Format_returned == rt_pc \in {"formatted", "parsed"}

LastOf(q) == IF q = <<>> THEN 0 ELSE q[Len(q)]

\* the results of the first n calls by the rule: last_emitted + 1 when the
\* reading is not above last_emitted, otherwise the reading
RECURSIVE Generated(_, _)
Generated(script, n) ==
    IF n = 0 THEN <<>>
    ELSE LET earlier == Generated(script, n - 1)
         IN  Append(earlier, IF script[n] <= LastOf(earlier)
                             THEN LastOf(earlier) + 1
                             ELSE script[n])

\* C17: with one caller at a time, each call returns last_emitted + 1 when
\* its clock reading is not above last_emitted and the reading otherwise, and
\* stores what it returns as last_emitted; the readings 1000000000, 500000000,
\* 1000000001 give 1000000000, 1000000001, 1000000002.
C17_SequentialGenerator ==
    /\ emitted = Generated(mock, Len(emitted))
    /\ g_last_monotonic = LastOf(emitted)
    /\ \A t \in Threads : pc[t] = "return" => new_val[t] = g_last_monotonic
    /\ (mock = MockVector /\ Len(emitted) = 3)
         => emitted = <<1000000000, 1000000001, 1000000002>>

\* C17 witness: the third call under the mocked readings 1000000000,
\* 500000000, 1000000001 returns 1000000002.
C17_Witness ==
    \E t \in Threads :
        /\ mock = MockVector
        /\ pc[t] = "return"
        /\ Len(emitted) = 3
        /\ current[t] = 1000000001
        /\ new_val[t] = 1000000002

\* ------------------------------------------------------------------------
\* Properties of the regression callback (SpecGenerator)

\* C18: every invocation of the callback a call has made carries expected =
\* the value the call replaces + 1, actual = the call's clock reading and
\* adjusted = the value the call returns.
C18_CallbackArguments ==
    \A t \in Threads :
        pc[t] = "return" =>
            \A i \in DOMAIN notified[t] :
                notified[t][i] = [expected |-> last[t] + 1,
                                  actual |-> current[t],
                                  adjusted |-> new_val[t]]

\* C19: a call invokes the callback at most once, whatever the interleaving
\* and the failures of the compare-and-swap, and not at all when its result is
\* its clock reading.
C19_AtMostOneNotification ==
    \A t \in Threads :
        /\ Len(notified[t]) <= 1
        /\ (pc[t] = "return" /\ new_val[t] = current[t]) => notified[t] = <<>>

\* C20: no call of the generator calls through a null callback pointer,
\* whenever ut_set_regression_callback runs.
C20_NeverCallsNull == \A t \in Threads : pc[t] # "crashed"

\* ------------------------------------------------------------------------
\* ut_calendar.c: the Japanese era

JAPANESE_ERAS ==
    <<[era |-> "UT_ERA_REIWA", start_year |-> 2019, start_month |-> 5, start_day |-> 1],
      [era |-> "UT_ERA_HEISEI", start_year |-> 1989, start_month |-> 1, start_day |-> 8],
      [era |-> "UT_ERA_SHOWA", start_year |-> 1926, start_month |-> 12, start_day |-> 25],
      [era |-> "UT_ERA_TAISHO", start_year |-> 1912, start_month |-> 7, start_day |-> 30],
      [era |-> "UT_ERA_MEIJI", start_year |-> 1868, start_month |-> 1, start_day |-> 25]>>

NUM_ERAS == Len(JAPANESE_ERAS)

\* An era that begins the day after its start date.
after_start_next_day(year, month, day, sy, sm, sd) ==
    \/ year > sy
    \/ (year = sy /\ month > sm)
    \/ (year = sy /\ month = sm /\ day > sd)

\* bool after_start = (year > sy) || (year == sy && month > sm) || ...
after_start(year, month, day, sy, sm, sd) ==
    \/ year > sy
    \/ (year = sy /\ month > sm)
    \/ (year = sy /\ month = sm /\ day >= sd)

\* for (size_t i = 0; i < NUM_ERAS; i++) { ... }  return UT_ERR_OUT_OF_RANGE;
RECURSIVE EraLoop(_, _, _, _)
EraLoop(b, era_out, era_year_out, i) ==
    IF i > NUM_ERAS
    THEN [err |-> UT_ERR_OUT_OF_RANGE, era |-> era_out, era_year |-> era_year_out]
    ELSE LET e == JAPANESE_ERAS[i]
         IN  IF after_start(b.year, b.month, b.day,
                            e.start_year, e.start_month, e.start_day)
             THEN [err |-> UT_OK, era |-> e.era, era_year |-> b.year - e.start_year + 1]
             ELSE EraLoop(b, era_out, era_year_out, i + 1)

\* ut_error_t ut_to_japanese_era(ut_timestamp_t ts, ut_japanese_era_t *era, int *era_year)
\* era_out, era_year_out: what the caller's variables hold, NULL for a null pointer
ut_to_japanese_era(nanos, era_out, era_year_out) ==
    IF era_out = NULL \/ era_year_out = NULL
    THEN [err |-> UT_ERR_NULL_POINTER, era |-> era_out, era_year |-> era_year_out]
    ELSE CHOOSE r \in {EraLoop(b, era_out, era_year_out, 1) :
                        b \in {ut_internal_from_nanos(nanos)}} : TRUE

\* ------------------------------------------------------------------------
\* The calendar functions under their caller (test.c: test_calendar)

Moment(date, time, frac) ==
    [year |-> date[1], month |-> date[2], day |-> date[3],
     hour |-> time[1], minute |-> time[2], second |-> time[3], frac |-> frac]

InstantOf(m) ==
    ut_internal_to_nanos(m.year, m.month, m.day, m.hour, m.minute, m.second, m.frac)

CalendarDates ==
    {<<2024, 12, 14>>, <<2019, 4, 30>>, <<2019, 5, 1>>, <<1989, 1, 7>>, <<1989, 1, 8>>,
     <<1926, 12, 24>>, <<1926, 12, 25>>, <<1912, 7, 29>>, <<1912, 7, 30>>,
     <<1868, 1, 24>>, <<1868, 1, 25>>, <<1867, 12, 31>>, <<1868, 2, 1>>,
     <<1677, 9, 22>>, <<2262, 4, 10>>, <<1900, 1, 1>>, <<2000, 2, 29>>,
     <<2020, 12, 31>>, <<2021, 1, 1>>, <<2021, 1, 3>>, <<2021, 1, 4>>,
     <<2018, 12, 30>>, <<2018, 12, 31>>, <<2024, 12, 29>>, <<2024, 12, 30>>,
     <<2024, 1, 1>>, <<2015, 12, 31>>, <<2016, 1, 3>>, <<2016, 1, 4>>,
     <<1968, 12, 29>>, <<1968, 12, 30>>, <<1965, 1, 3>>, <<1965, 1, 4>>,
     <<1964, 12, 31>>, <<1969, 12, 27>>, <<1969, 12, 28>>, <<1969, 12, 29>>,
     <<1969, 12, 30>>, <<1969, 12, 31>>, <<1970, 1, 1>>, <<1970, 1, 2>>,
     <<1970, 1, 3>>, <<1970, 1, 4>>, <<1970, 1, 5>>}

CalendarTimes == {<<0, 0, 0>>, <<3, 13, 21>>, <<23, 59, 59>>}

CalendarFractions == {0, 1, 999999999}

\* the first and the last instant of the signed 64-bit range
FirstMoment == Moment(<<1677, 9, 21>>, <<0, 12, 43>>, 145224192)
LastMoment == Moment(<<2262, 4, 11>>, <<23, 47, 16>>, 854775807)

Moments ==
    {Moment(date, time, frac) :
        date \in CalendarDates, time \in CalendarTimes, frac \in CalendarFractions}
    \cup {FirstMoment, LastMoment}

InitCalendar ==
    /\ IdleGenerator
    /\ IdleParser
    /\ IdleFormatter
    /\ when \in Moments
    /\ cal_ts = InstantOf(when)
    /\ cal_op = NULL
    /\ cal_err = NULL
    /\ era \in (IF when.frac = 0 THEN {UNSET, NULL} ELSE {UNSET})
    /\ era_year = UNSET
    /\ iso = [null |-> era = NULL, written |-> FALSE, year |-> 0, week |-> 0, day |-> 0]
    /\ fields = UNSET
    /\ year_in = 0
    /\ year_out = UNSET

\* err = ut_to_japanese_era(ts, &era, &era_year);
call_ut_to_japanese_era ==
    /\ cal_op = NULL
    /\ LET r == ut_to_japanese_era(cal_ts, era, era_year)
       IN  /\ cal_err' = r.err
           /\ era' = r.era
           /\ era_year' = r.era_year
    /\ cal_op' = "ut_to_japanese_era"
    /\ UNCHANGED <<genVars, parseVars, fmtVars, when, cal_ts, iso, fields, year_in, year_out>>

\* ------------------------------------------------------------------------
\* ut_calendar.c: the ISO week date

\* static int day_of_week_from_nanos(int64_t nanos): 0 = Monday .. 6 = Sunday
\* nanos / (86400LL * 1000000000LL) truncates toward zero
day_of_week_from_nanos(nanos) ==
    LET days == IF nanos.neg THEN -nanos.d ELSE nanos.d
        dow == CRem(days + 3, 7)
    IN  IF dow < 0 THEN dow + 7 ELSE dow

\* for (int i = 1; i < m; i++) day_of_year += days_in_month(y, i);  day_of_year += d;
day_of_year(y, m, d) == MonthDays(y, m) + d

\* the week date of the fields b that ut_internal_from_nanos wrote and of the
\* day of week dow: *day = dow + 1; ... *year = iso_year; *week = (thursday_doy + 6) / 7;
iso_week_of(b, dow) ==
    LET thursday_doy == day_of_year(b.year, b.month, b.day) + (3 - dow)
        prev_year_days == IF ut_internal_is_leap_year(b.year - 1) THEN 366 ELSE 365
        this_year_days == IF ut_internal_is_leap_year(b.year) THEN 366 ELSE 365
        r == IF thursday_doy < 1
             THEN [iso_year |-> b.year - 1, doy |-> thursday_doy + prev_year_days]
             ELSE IF thursday_doy > this_year_days
             THEN [iso_year |-> b.year + 1, doy |-> thursday_doy - this_year_days]
             ELSE [iso_year |-> b.year, doy |-> thursday_doy]
    IN  [null |-> FALSE, written |-> TRUE,
         year |-> r.iso_year, week |-> CDiv(r.doy + 6, 7), day |-> dow + 1]

\* void ut_to_iso_week(ut_timestamp_t ts, int *year, int *week, int *day)
\* iso_out: the caller's three variables; null when one of the pointers is null
ut_to_iso_week(nanos, iso_out) ==
    IF iso_out.null THEN iso_out
    ELSE CHOOSE r \in {iso_week_of(b, dow) :
                        b \in {ut_internal_from_nanos(nanos)},
                        dow \in {day_of_week_from_nanos(nanos)}} : TRUE

\* ------------------------------------------------------------------------
\* ut_calendar.c: the year offsets

THAI_OFFSET == 543
DANGI_OFFSET == 2333
MINGUO_OFFSET == 1911

INT_MAX == 2147483647
INT_MIN == -2147483647 - 1

\* a + b on int as the build's add instruction yields it (-O2, no -ftrapv):
\* the sum reduced modulo 2^32 into INT_MIN..INT_MAX
IntAdd(a, b) ==
    IF b >= 0 /\ a > INT_MAX - b THEN (a - INT_MAX - 1) + (b + INT_MIN)
    ELSE IF b < 0 /\ a < INT_MIN - b THEN (a - INT_MIN) + ((b + INT_MAX) + 1)
    ELSE a + b

\* A conversion back that subtracts the Dangi offset from a Thai year.
ut_thai_to_gregorian_dangi(thai_year) == IntAdd(thai_year, -DANGI_OFFSET)

ut_gregorian_to_thai(gregorian_year) == IntAdd(gregorian_year, THAI_OFFSET)
ut_thai_to_gregorian(thai_year) == IntAdd(thai_year, -THAI_OFFSET)
ut_gregorian_to_dangi(gregorian_year) == IntAdd(gregorian_year, DANGI_OFFSET)
ut_dangi_to_gregorian(dangi_year) == IntAdd(dangi_year, -DANGI_OFFSET)
ut_gregorian_to_minguo(gregorian_year) == IntAdd(gregorian_year, -MINGUO_OFFSET)
ut_minguo_to_gregorian(minguo_year) == IntAdd(minguo_year, MINGUO_OFFSET)

Years ==
    {INT_MIN, INT_MIN + 1, INT_MIN + 542, INT_MIN + 543, INT_MIN + 1910, INT_MIN + 1911,
     INT_MIN + 2332, INT_MIN + 2333, -2333, -1911, -543, -1, 0, 1, 113, 543, 1911, 1912,
     1970, 2024, 2333, 2567, 4357, INT_MAX - 2333, INT_MAX - 2332, INT_MAX - 1911,
     INT_MAX - 1910, INT_MAX - 543, INT_MAX - 542, INT_MAX - 1, INT_MAX}

\* ------------------------------------------------------------------------
\* The calendar calls

\* ut_to_iso_week(ts, &iso_y, &iso_w, &iso_d);
call_ut_to_iso_week ==
    /\ cal_op = NULL
    /\ iso' = ut_to_iso_week(cal_ts, iso)
    /\ cal_op' = "ut_to_iso_week"
    /\ UNCHANGED <<genVars, parseVars, fmtVars, when, cal_ts, cal_err, era, era_year,
                   fields, year_in, year_out>>

\* ut_internal_from_nanos(ts.nanos, &y, &m, &d, &hour, &minute, &second, &frac);
call_ut_internal_from_nanos ==
    /\ cal_op = NULL
    /\ fields' = ut_internal_from_nanos(cal_ts)
    /\ cal_op' = "ut_internal_from_nanos"
    /\ UNCHANGED <<genVars, parseVars, fmtVars, when, cal_ts, cal_err, era, era_year,
                   iso, year_in, year_out>>

\* each projection of a year, and each projection of the year it gave back
call_year_offsets(y) ==
    /\ cal_op = NULL
    /\ year_in' = y
    /\ year_out' =
          [thai |-> ut_gregorian_to_thai(y),
           thai_back |-> ut_thai_to_gregorian(ut_gregorian_to_thai(y)),
           dangi |-> ut_gregorian_to_dangi(y),
           dangi_back |-> ut_dangi_to_gregorian(ut_gregorian_to_dangi(y)),
           minguo |-> ut_gregorian_to_minguo(y),
           minguo_back |-> ut_minguo_to_gregorian(ut_gregorian_to_minguo(y)),
           of_thai |-> ut_thai_to_gregorian(y),
           of_thai_back |-> ut_gregorian_to_thai(ut_thai_to_gregorian(y)),
           of_dangi |-> ut_dangi_to_gregorian(y),
           of_dangi_back |-> ut_gregorian_to_dangi(ut_dangi_to_gregorian(y)),
           of_minguo |-> ut_minguo_to_gregorian(y),
           of_minguo_back |-> ut_gregorian_to_minguo(ut_minguo_to_gregorian(y))]
    /\ cal_op' = "year_offsets"
    /\ UNCHANGED <<genVars, parseVars, fmtVars, when, cal_ts, cal_err, era, era_year,
                   iso, fields>>

NextCalendar ==
    \/ call_ut_to_japanese_era
    \/ call_ut_to_iso_week
    \/ call_ut_internal_from_nanos
    \/ \E y \in Years : call_year_offsets(y)

SpecCalendar == InitCalendar /\ [][NextCalendar]_vars

\* ------------------------------------------------------------------------
\* Calendar properties

DateOf(m) == <<m.year, m.month, m.day>>

\* date a is date b or an earlier one
NotAfter(a, b) ==
    \/ a[1] < b[1]
    \/ (a[1] = b[1] /\ a[2] < b[2])
    \/ (a[1] = b[1] /\ a[2] = b[2] /\ a[3] <= b[3])

Eras == {JAPANESE_ERAS[i] : i \in 1..NUM_ERAS}

EraStart(e) == <<e.start_year, e.start_month, e.start_day>>

MostRecentEra(date) ==
    CHOOSE e \in Eras :
        /\ NotAfter(EraStart(e), date)
        /\ \A o \in Eras : NotAfter(EraStart(o), date) => NotAfter(EraStart(o), EraStart(e))

EraCalled == cal_op = "ut_to_japanese_era" /\ era # NULL

\* C21: for an instant whose UTC date is 1868-01-25 or later, ut_to_japanese_era
\* returns UT_OK with the most recent era whose start date is not after that date
\* and era_year = year - start year + 1 (2019-04-30 is Heisei 31, 2019-05-01 is
\* Reiwa 1, 2024-12-14 is Reiwa 6); for an earlier instant it returns
\* UT_ERR_OUT_OF_RANGE and writes neither output.
C21_JapaneseEra ==
    EraCalled =>
        /\ IF NotAfter(<<1868, 1, 25>>, DateOf(when))
           THEN /\ cal_err = UT_OK
                /\ era = MostRecentEra(DateOf(when)).era
                /\ era_year = when.year - MostRecentEra(DateOf(when)).start_year + 1
           ELSE /\ cal_err = UT_ERR_OUT_OF_RANGE
                /\ era = UNSET
                /\ era_year = UNSET
        /\ DateOf(when) = <<2019, 4, 30>> => era = "UT_ERA_HEISEI" /\ era_year = 31
        /\ DateOf(when) = <<2019, 5, 1>> => era = "UT_ERA_REIWA" /\ era_year = 1
        /\ DateOf(when) = <<2024, 12, 14>> => era = "UT_ERA_REIWA" /\ era_year = 6

C21_Witness ==
    /\ EraCalled
    /\ DateOf(when) = <<2019, 5, 1>>
    /\ when.hour = 0 /\ when.frac = 0
    /\ cal_err = UT_OK /\ era = "UT_ERA_REIWA" /\ era_year = 1

\* The ISO 8601 week date of a calendar date, from the day count of the date:
\* 1970-01-01 was a Thursday; the week belongs to the year that holds its Thursday.
EpochDay(date) == days_from_epoch(date[1], date[2], date[3])

WeekdayOf(date) == ((EpochDay(date) + 3) % 7) + 1

IsoWeekDate(date) ==
    LET thursday == EpochDay(date) - (WeekdayOf(date) - 1) + 3
        iso_year == CHOOSE y \in (date[1] - 1)..(date[1] + 1) :
                       /\ EpochDay(<<y, 1, 1>>) <= thursday
                       /\ thursday < EpochDay(<<y + 1, 1, 1>>)
    IN  [null |-> FALSE, written |-> TRUE, year |-> iso_year,
         week |-> ((thursday - EpochDay(<<iso_year, 1, 1>>)) \div 7) + 1,
         day |-> WeekdayOf(date)]

IsoCalled == cal_op = "ut_to_iso_week" /\ ~iso.null

\* C22: for every instant, before or after 1970, ut_to_iso_week returns the ISO 8601
\* week date of the instant's UTC date: weekday 1..7 with Monday = 1, week 1..53,
\* and the ISO year adjusted at year boundaries; 2024-12-14 gives (2024, 50, 6).
C22_IsoWeek ==
    IsoCalled =>
        /\ iso = IsoWeekDate(DateOf(when))
        /\ iso.day \in 1..7
        /\ iso.week \in 1..53
        /\ DateOf(when) = <<2024, 12, 14>> =>
              iso.year = 2024 /\ iso.week = 50 /\ iso.day = 6

YearsCalled == cal_op = "year_offsets"

\* C23: the year projections are exact inverses of one another for every int y:
\* Thai is y + 543, Dangi y + 2333, Minguo y - 1911, and each conversion back
\* undoes its projection, in either order (2024 is 2567, 4357 and 113).
C23_YearOffsets ==
    YearsCalled =>
        /\ year_out.thai_back = year_in
        /\ year_out.dangi_back = year_in
        /\ year_out.minguo_back = year_in
        /\ year_out.of_thai_back = year_in
        /\ year_out.of_dangi_back = year_in
        /\ year_out.of_minguo_back = year_in
        /\ year_in <= INT_MAX - 543 => year_out.thai - year_in = 543
        /\ year_in <= INT_MAX - 2333 => year_out.dangi - year_in = 2333
        /\ year_in >= INT_MIN + 1911 => year_in - year_out.minguo = 1911
        /\ year_in = 2024 =>
              year_out.thai = 2567 /\ year_out.dangi = 4357 /\ year_out.minguo = 113
        /\ year_in = 2567 => year_out.of_thai = 2024
        /\ year_in = 4357 => year_out.of_dangi = 2024
        /\ year_in = 113 => year_out.of_minguo = 2024

C23_Witness ==
    /\ YearsCalled
    /\ year_in = 2024
    /\ year_out.thai = 2567 /\ year_out.thai_back = 2024
    /\ year_out.dangi = 4357 /\ year_out.dangi_back = 2024
    /\ year_out.minguo = 113 /\ year_out.minguo_back = 2024

BrokenDown == cal_op = "ut_internal_from_nanos"

\* C25: for every int64 instant, negative and non-whole ones included,
\* ut_internal_from_nanos ends and yields a fraction in 0..999999999, an hour in
\* 0..23, a minute and a second in 0..59, a month in 1..12 and a day between 1
\* and the length of that month: negative remainders are corrected by a borrow.
C25_FromNanosRanges ==
    BrokenDown =>
        /\ fields.frac_nanos >= 0 /\ fields.frac_nanos <= 999999999
        /\ fields.hour >= 0 /\ fields.hour <= 23
        /\ fields.minute >= 0 /\ fields.minute <= 59
        /\ fields.second >= 0 /\ fields.second <= 59
        /\ fields.month >= 1 /\ fields.month <= 12
        /\ fields.day >= 1 /\ fields.day <= MonthLength(fields.year, fields.month)

C25_Witness ==
    /\ BrokenDown
    /\ cal_ts = I64(TRUE, 0, 0, 1)
    /\ fields = [year |-> 1969, month |-> 12, day |-> 31, hour |-> 23, minute |-> 59,
                 second |-> 59, frac_nanos |-> 999999999]

\* what ut_to_iso_week writes for the instant of moment m
IsoWeekAt(m) ==
    ut_to_iso_week(InstantOf(m),
                   [null |-> FALSE, written |-> FALSE, year |-> 0, week |-> 0, day |-> 0])

\* C30: the result of ut_to_iso_week depends on the instant's calendar date only:
\* two instants of one UTC date get the same ISO year, week and weekday, and the
\* weekday of the next date is one later modulo 7, also for instants before 1970
\* that are not on a day boundary.
C30_IsoWeekByDate ==
    IsoCalled =>
        \A m \in Moments :
            /\ DateOf(m) = DateOf(when) => IsoWeekAt(m) = iso
            /\ EpochDay(DateOf(m)) = EpochDay(DateOf(when)) + 1 =>
                  IsoWeekAt(m).day = (iso.day % 7) + 1

\* ------------------------------------------------------------------------
\* Properties of the parser, continued (SpecParser)

\* the text after the body and the fraction begins with a character that is no
\* designator (and that the fraction scan does not take either)
OtherCharacter(p) ==
    /\ p.suffix # <<>>
    /\ p.suffix[1] \notin ({"Z", "z", "+", "-", "."} \cup DecimalDigits)

LenientOther ==
    /\ Called
    /\ mode = "lenient"
    /\ ValidBody(parts.body)
    /\ OptionalFraction(parts.frac)
    /\ OtherCharacter(parts)

\* C26 as stated: in lenient mode a valid body with an optional fraction followed
\* by a character other than 'Z', 'z', '+' or '-' is accepted with the instant of
\* the body read as UTC.
C26_LenientOtherAccepted ==
    LenientOther => (err = UT_OK /\ ts.nanos = StrictWithZ(parts).nanos)

\* C26: in lenient mode a valid body with an optional fraction followed by a
\* character other than 'Z', 'z', '+' or '-' is rejected with INVALID_FORMAT and
\* the caller's timestamp is left as it was.
C26_LenientOtherCharacter ==
    LenientOther => (err = UT_ERR_INVALID_FORMAT /\ ts.nanos = PRIOR)

\* C26 witness: the lenient parser met 'X' after a valid body and rejected it.
C26_Witness ==
    /\ LenientOther
    /\ parts.frac = <<>>
    /\ parts.suffix = <<"X">>
    /\ err = UT_ERR_INVALID_FORMAT

\* what each mode returns for the text of the call, given a fresh timestamp
StrictResult == ut_parse_strict(input, [null |-> FALSE, nanos |-> PRIOR])
LenientResult == ut_parse_lenient(input, [null |-> FALSE, nanos |-> PRIOR])

\* the error codes that only strict mode gives to some texts
ModeGated == {UT_ERR_FRACTION_TOO_LONG, UT_ERR_UNSUPPORTED_OFFSET}

\* C29: lenient parsing is a superset of strict parsing: a text ut_parse_strict
\* accepts is accepted by ut_parse_lenient with the same instant, and a text
\* rejected for its structure, its digits, a field out of range or its date gets
\* the same error code in both modes.
C29_LenientSuperset ==
    Called =>
        /\ err = (IF mode = "strict" THEN StrictResult.err ELSE LenientResult.err)
        /\ StrictResult.err = UT_OK =>
              (LenientResult.err = UT_OK /\ LenientResult.nanos = StrictResult.nanos)
        /\ ~ValidBody(parts.body) =>
              (StrictResult.err # UT_OK /\ LenientResult.err = StrictResult.err)
        /\ (LenientResult.err # UT_OK /\ StrictResult.err \notin ModeGated) =>
              LenientResult.err = StrictResult.err

\* C29 witness: the strict parser accepted a text with a fraction and the
\* lenient parser gives the same instant for it.
C29_Witness ==
    /\ Called
    /\ mode = "strict"
    /\ err = UT_OK
    /\ parts.frac # <<>>
    /\ ts.nanos.f # 0
    /\ LenientResult.err = UT_OK
    /\ LenientResult.nanos = ts.nanos

\* ------------------------------------------------------------------------
\* Properties of the generator, continued (SpecGenerator)

\* thread t is about to return from the first call the process makes
FirstCall(t) ==
    /\ pc[t] = "return"
    /\ calls[t] = 1
    /\ \A u \in Threads \ {t} : calls[u] = 0

\* C27: the first ut_now_monotonic call of a process returns the clock reading
\* itself, without synthesis and without a call of the regression callback,
\* whatever the clock reads (zero and pre-1970 readings included).
C27_FirstCall ==
    \A t \in Threads :
        FirstCall(t) => (new_val[t] = current[t] /\ notified[t] = <<>>)

\* the threads whose call has swapped its value in and not yet returned
Returning == {t \in Threads : pc[t] = "return"}

\* the calls that have returned
Completed == Started(Threads) - Cardinality({t \in Threads : pc[t] # "idle"})

\* C28: no two ut_now_monotonic calls return the same value, also when they
\* overlap and read the same clock value: every value returned is the value of
\* exactly one successful compare-and-swap on g_last_monotonic.
C28_DistinctValues ==
    /\ Cardinality(returned) = Completed
    /\ \A t \in Returning :
          /\ new_val[t] \notin returned
          /\ \A u \in Returning \ {t} : new_val[u] # new_val[t]
    /\ Len(emitted) = Completed + Cardinality(Returning)
    /\ Range(emitted) = returned \cup {new_val[t] : t \in Returning}
    /\ \A i, j \in 1..Len(emitted) : i # j => emitted[i] # emitted[j]

\* C28 witness: two overlapping calls read the same clock value and hold
\* different values to return, after two values were returned before.
C28_Witness ==
    /\ Cardinality(returned) = 2
    /\ \E t, u \in Returning :
          /\ t # u
          /\ current[t] = current[u]
          /\ new_val[t] # new_val[u]

\* ------------------------------------------------------------------------
\* Termination of the generator (SpecContention)

=============================================================================
